---- MODULE Spec2Model ----
(***************************************************************************)
(* Model of the forum <-> microblog mirroring bots:                        *)
(*   forum_to_twitter.py  (sanitizer, mention finder, assembler, post      *)
(*                         filter, thread segmenter)                       *)
(*   twitter_to_forum.py  (stream listener and its id ledger)              *)
(*                                                                         *)
(* A Python str is a sequence of one-character strings.  A Python list is  *)
(* a sequence.  A call that can raise returns [exc |-> ..., ret |-> ...].  *)
(***************************************************************************)
EXTENDS Integers, Sequences, FiniteSets, TLC

VARIABLES
    \* split_text_on_words: its arguments, its result, the call's position
    text, char_limit, lines, split_pc,
    \* Post / Topic construction: the arguments and the constructed objects
    post_args, post, topic_args, topic,
    \* postprocess_posts: its argument, its result, the surviving input
    \* positions (0-based, as enumerate() numbers them), the call's position
    posts, filtered, kept, filter_pc,
    \* compile_posts_into_topic: the forum's topic (its pages), the requests
    \* issued so far, the locals page_count, posts and i, the returned Topic,
    \* the call's position
    forum_topic, requests, page_count, assembled, page_i, compiled, compile_pc,
    \* get_recent_mentions + extract_topics: the forum's search result pages,
    \* the first result, the locals topics and page, the returned slugs, the
    \* position
    search_pages, mentions, topics, mentions_page, topic_slugs, mentions_pc,
    \* twitter_to_forum: the contents of IDS_FILE (None: no such file), the
    \* forum topics created (the tweet's id, and whether post_forum returned),
    \* the ids handed to __save_tweet_id, the number of tweets delivered, the
    \* process's position
    ids_file, forum_topics, saved, delivered, listener_pc

split_vars == <<text, char_limit, lines, split_pc>>
sanitize_vars == <<post_args, post, topic_args, topic>>
filter_vars == <<posts, filtered, kept, filter_pc>>
compile_vars ==
    <<forum_topic, requests, page_count, assembled, page_i, compiled, compile_pc>>
mentions_vars ==
    <<search_pages, mentions, topics, mentions_page, topic_slugs, mentions_pc>>
ledger_vars == <<ids_file, forum_topics, saved, delivered, listener_pc>>
vars ==
    <<split_vars, sanitize_vars, filter_vars, compile_vars, mentions_vars,
      ledger_vars>>

\* what an action of one component leaves alone: the other components
SplitFrame ==
    UNCHANGED <<sanitize_vars, filter_vars, compile_vars, mentions_vars, ledger_vars>>
SanitizeFrame ==
    UNCHANGED <<split_vars, filter_vars, compile_vars, mentions_vars, ledger_vars>>
FilterFrame ==
    UNCHANGED <<split_vars, sanitize_vars, compile_vars, mentions_vars, ledger_vars>>
CompileFrame ==
    UNCHANGED <<split_vars, sanitize_vars, filter_vars, mentions_vars, ledger_vars>>
MentionsFrame ==
    UNCHANGED <<split_vars, sanitize_vars, filter_vars, compile_vars, ledger_vars>>
LedgerFrame ==
    UNCHANGED <<split_vars, sanitize_vars, filter_vars, compile_vars, mentions_vars>>

(***************************************************************************)
(* Bounds of the model                                                     *)
(***************************************************************************)
MaxTextLen == 5
MaxLimit == 3
MaxPosts == 4
MaxPages == 3
MaxPostsPerPage == 2
MaxSearchPages == 2
MaxEntriesPerPage == 2
MaxTweets == 3

(***************************************************************************)
(* Python values                                                           *)
(***************************************************************************)
Max(S) == CHOOSE m \in S : \A k \in S : k <= m

None == [some |-> FALSE]
Some(v) == [some |-> TRUE, val |-> v]

Return(v) == [exc |-> "None", ret |-> v]
Raise(e) == [exc |-> e, ret |-> <<>>]

\* the characters that str.strip(' \n') removes
STRIP_CHARS == {" ", "\n"}

SeqsUpTo(S, n) == UNION {[1..k -> S] : k \in 0..n}

RECURSIVE Concat(_)
Concat(ss) == IF ss = <<>> THEN <<>> ELSE Head(ss) \o Concat(Tail(ss))

RECURSIVE lstrip(_, _)
lstrip(s, chars) ==
    IF s # <<>> /\ Head(s) \in chars THEN lstrip(Tail(s), chars) ELSE s

RECURSIVE rstrip(_, _)
rstrip(s, chars) ==
    IF s # <<>> /\ s[Len(s)] \in chars
    THEN rstrip(SubSeq(s, 1, Len(s) - 1), chars)
    ELSE s

\* str.strip(chars)
strip(s, chars) == rstrip(lstrip(s, chars), chars)

\* str.rfind(sub): the highest 0-based index at which sub occurs, else -1
rfind(s, sub) ==
    LET starts == {i \in 0..(Len(s) - Len(sub)) :
                       SubSeq(s, i + 1, i + Len(sub)) = sub}
    IN  IF starts = {} THEN -1 ELSE Max(starts)

\* s[i:] for a 0-based i >= 0
SliceFrom(s, i) == SubSeq(s, i + 1, Len(s))

\* re.findall(r'.{n}', s) from the 0-based scan position i: the
\* non-overlapping windows of n characters none of which is a newline
\* ('.' does not match '\n').
RECURSIVE findall_from(_, _, _)
findall_from(s, n, i) ==
    IF i + n > Len(s) THEN <<>>
    ELSE IF \A k \in 1..n : s[i + k] # "\n"
         THEN <<SubSeq(s, i + 1, i + n)>> \o findall_from(s, n, i + n)
         ELSE findall_from(s, n, i + 1)

re_findall_dot(n, s) == findall_from(s, n, 0)

(***************************************************************************)
(* Thread segmenter: split_text_on_words                                   *)
(***************************************************************************)
split_text_on_words(t, limit) ==
    IF Len(t) <= limit
    THEN Return(<<strip(t, STRIP_CHARS)>>)
    ELSE LET windows == re_findall_dot(limit, t)
             ls == [k \in DOMAIN windows |-> strip(windows[k], STRIP_CHARS)]
         IN  IF Len(ls) = 0
             THEN Raise("IndexError")   \* lines[-1] of an empty list
             ELSE LET last == ls[Len(ls)]
                      ending_idx == rfind(t, last) + Len(last)
                      maybe_last_line == strip(SliceFrom(t, ending_idx), STRIP_CHARS)
                  IN  Return(IF maybe_last_line # <<>>
                             THEN Append(ls, maybe_last_line)
                             ELSE ls)

SplitAlphabet == {"a", "b", " ", "\n"}

\* one call of split_text_on_words(text, char_limit)
Split ==
    /\ SplitFrame
    /\ split_pc = "call"
    /\ lines' = split_text_on_words(text, char_limit)
    /\ split_pc' = "done"
    /\ UNCHANGED <<text, char_limit>>

(***************************************************************************)
(* Sanitizer: profanity_only, remove_html, profanity.censor, Post, Topic   *)
(***************************************************************************)
\* the characters of the model's alphabet that \w does not match
NON_WORD_CHARS == {" ", "\n", "@", "*", "<", ">", "/"}

IsWordChar(c) == c \notin NON_WORD_CHARS

RECURSIVE skip_word(_)
skip_word(s) ==
    IF s # <<>> /\ IsWordChar(Head(s)) THEN skip_word(Tail(s)) ELSE s

\* re.sub(r'@\w+', '', s)
RECURSIVE sub_mentions(_)
sub_mentions(s) ==
    IF s = <<>> THEN <<>>
    ELSE IF Head(s) = "@" /\ Len(s) >= 2 /\ IsWordChar(s[2])
         THEN sub_mentions(skip_word(Tail(s)))
         ELSE <<Head(s)>> \o sub_mentions(Tail(s))

\* re.sub(r'[^\w]', '', s)
sub_non_word(s) == SelectSeq(s, IsWordChar)

profanity_only(s) == Len(sub_non_word(sub_mentions(s))) = 0

\* the loaded word list, cut down to one word
CENSOR_WORDS == {<<"d", "a", "m", "n">>}
CENSOR_REPLACEMENT == <<"*", "*", "*", "*">>

\* the leading run of word characters of s
RECURSIVE take_word(_)
take_word(s) ==
    IF s # <<>> /\ IsWordChar(Head(s))
    THEN <<Head(s)>> \o take_word(Tail(s))
    ELSE <<>>

\* profanity.censor(s): every word of the word list becomes "****"; the
\* other words and the characters between words are kept.
RECURSIVE censor(_)
censor(s) ==
    IF s = <<>> THEN <<>>
    ELSE IF IsWordChar(Head(s))
         THEN LET w == take_word(s)
              IN  (IF w \in CENSOR_WORDS THEN CENSOR_REPLACEMENT ELSE w)
                      \o censor(skip_word(s))
         ELSE <<Head(s)>> \o censor(Tail(s))

\* what follows the first ">" of s (nothing when there is none)
RECURSIVE after_tag(_)
after_tag(s) ==
    IF s = <<>> THEN <<>>
    ELSE IF Head(s) = ">" THEN Tail(s) ELSE after_tag(Tail(s))

\* HTMLParser(html).text(): the text outside the <...> tags
RECURSIVE html_text(_)
html_text(s) ==
    IF s = <<>> THEN <<>>
    ELSE IF Head(s) = "<" THEN html_text(after_tag(Tail(s)))
         ELSE <<Head(s)>> \o html_text(Tail(s))

remove_html(html) ==
    LET t == html_text(html)
    IN  [k \in DOMAIN t |-> IF t[k] = "\n" THEN " " ELSE t[k]]

DIGITS == <<"0", "1", "2", "3", "4", "5", "6", "7", "8", "9">>

\* str(n) for an int n >= 0
RECURSIVE str(_)
str(n) ==
    IF n < 10 THEN <<DIGITS[n + 1]>>
    ELSE str(n \div 10) \o <<DIGITS[(n % 10) + 1]>>

\* Post(...) followed by Post.__post_init__ (the date field, which nothing
\* below reads, is left out)
Post(uid, username, is_banned, replies_to, content) ==
    LET censored == censor(username)
    IN  [uid |-> uid,
         username |-> IF profanity_only(censored) THEN str(uid) ELSE censored,
         is_banned |-> is_banned,
         replies_to |-> IF replies_to # None
                        THEN Some(censor(replies_to.val))
                        ELSE None,
         text |-> censor(remove_html(content)),
         content |-> censor(content)]

\* Topic(...) followed by Topic.__post_init__ (date left out; posts is the
\* list the caller passes)
Topic(id, title, author, author_uid, ps) ==
    LET censored == censor(author)
    IN  [id |-> id,
         title |-> censor(title),
         author |-> IF profanity_only(censored) THEN str(author_uid) ELSE censored,
         author_uid |-> author_uid,
         posts |-> ps]

\* display names a forum can send
SampleNames ==
    { <<"a", "l">>,
      <<"d", "a", "m", "n">>,
      <<"d", "a", "m", "n", " ", "a", "l">>,
      <<"@", "a", "l">>,
      <<"*", "*">> }

SampleUids == {7, 42}

SampleContents ==
    { <<"h", "i">>,
      <<"<", "p", ">", "h", "i", "<", "/", "p", ">">>,
      <<"@", "b", "r", "a", "d">>,
      <<"@", "b", "r", "a", "d", " ", "h", "i">>,
      <<"d", "a", "m", "n">> }

\* the construction of one Post from a fetched record
NewPost ==
    /\ SanitizeFrame
    /\ post = None
    /\ \E uid \in SampleUids, username \in SampleNames, is_banned \in BOOLEAN,
       replies_to \in {None} \cup {Some(n) : n \in SampleNames},
       content \in SampleContents :
        /\ post_args' = Some([uid |-> uid, username |-> username,
                              replies_to |-> replies_to])
        /\ post' = Some(Post(uid, username, is_banned, replies_to, content))
        /\ UNCHANGED <<topic_args, topic>>

\* the construction of one Topic
NewTopic ==
    /\ SanitizeFrame
    /\ topic = None
    /\ \E id \in {1}, title \in SampleContents, author \in SampleNames,
       author_uid \in SampleUids :
        /\ topic_args' = Some([author |-> author, author_uid |-> author_uid])
        /\ topic' = Some(Topic(id, title, author, author_uid, <<>>))
        /\ UNCHANGED <<post_args, post>>

(***************************************************************************)
(* Post filter: postprocess_posts                                          *)
(***************************************************************************)
BOT_USERNAME == <<"b", "r", "a", "d">>
MENTION == <<"@">> \o BOT_USERNAME
NO_TAG_SENTINEL == 999

\* sub in s
Contains(s, sub) ==
    \E i \in 0..(Len(s) - Len(sub)) : SubSeq(s, i + 1, i + Len(sub)) = sub

\* enumerate(ps)
Enumerate(ps) == [k \in DOMAIN ps |-> [i |-> k - 1, post |-> ps[k]]]

\* np.where([...])[0], with the fallback of the empty case: the set of the
\* 0-based positions of the posts whose content holds the mention
tagging_posts(ps) ==
    LET where == {i \in 0..(Len(ps) - 1) : Contains(ps[i + 1].content, MENTION)}
    IN  IF Cardinality(where) = 0 THEN {NO_TAG_SENTINEL} ELSE where

\* trim_at_tag without the bound i < max(tagging_posts)
trim_at_tag_unbounded(es, tagging) ==
    LET Keep(e) == e.i \notin tagging
    IN  SelectSeq(es, Keep)

\* [post for i, post in enumerate(posts)
\*       if i not in tagging_posts and i < max(tagging_posts)]
trim_at_tag(es, tagging) ==
    LET Keep(e) == e.i \notin tagging /\ e.i < Max(tagging)
    IN  SelectSeq(es, Keep)

\* drop_banned with the test inverted
drop_banned_inverted(es) ==
    LET Keep(e) == e.post.is_banned
    IN  SelectSeq(es, Keep)

\* [post for post in posts if not post.is_banned]
drop_banned(es) ==
    LET Keep(e) == ~e.post.is_banned
    IN  SelectSeq(es, Keep)

\* [post for post in posts if not profanity_only(post.text)]
drop_profanity_only(es) ==
    LET Keep(e) == ~profanity_only(e.post.text)
    IN  SelectSeq(es, Keep)

\* postprocess_posts on the enumerated posts: each survivor with its input
\* position
postprocess_enumerated(ps) ==
    drop_profanity_only(drop_banned(trim_at_tag(Enumerate(ps), tagging_posts(ps))))

postprocess_posts(ps) ==
    LET es == postprocess_enumerated(ps)
    IN  [k \in DOMAIN es |-> es[k].post]

SamplePosts ==
    {Post(7, <<"a", "l">>, b, None, c) : b \in BOOLEAN, c \in SampleContents}

\* one call of postprocess_posts(posts)
Filter ==
    /\ FilterFrame
    /\ filter_pc = "call"
    /\ filtered' = postprocess_posts(posts)
    /\ kept' = [k \in DOMAIN postprocess_enumerated(posts) |->
                    postprocess_enumerated(posts)[k].i]
    /\ filter_pc' = "done"
    /\ UNCHANGED posts

(***************************************************************************)
(* Paginated assembler: compile_posts_into_topic                           *)
(***************************************************************************)
\* the n post records of page p of a topic; the uid tells the page and the
\* place in the page, and the post at <<page, place>> = tagged mentions the
\* bot
PagePosts(p, n, tagged) ==
    [k \in 1..n |->
        [uid |-> 10 * p + k,
         user |-> [username |-> <<"a", "l">>, banned |-> FALSE],
         parent |-> None,
         content |-> IF tagged = <<p, k>>
                     THEN <<"@", "b", "r", "a", "d", " ", "h", "i">>
                     ELSE <<"h", "i">>]]

\* the JSON page p of the topic: what GET topic/<slug>?page=p answers, and
\* for p = 1 also what GET topic/<slug> answers
TopicPage(t, p) ==
    [tid |-> 1,
     title |-> <<"h", "i">>,
     author |-> [username |-> <<"a", "l">>, uid |-> 7],
     pagination |-> [pageCount |-> Len(t)],
     posts |-> t[p]]

\* extract_posts(page)
extract_posts(page) ==
    [k \in DOMAIN page.posts |->
        Post(page.posts[k].uid,
             page.posts[k].user.username,
             page.posts[k].user.banned,
             IF page.posts[k].parent # None
             THEN Some(page.posts[k].parent.val.username)
             ELSE None,
             page.posts[k].content)]

\* lines 213-221: page = get_page(url, 1), which answers page 1
GetFirstPage ==
    /\ CompileFrame
    /\ compile_pc = "first"
    /\ requests' = Append(requests, 1)
    /\ \/ /\ page_count' = TopicPage(forum_topic, 1).pagination.pageCount
          /\ assembled' = extract_posts(TopicPage(forum_topic, 1))
          /\ page_i' = 1
          /\ compile_pc' = "loop"
       \/ \* raise_for_status raises; get_page re-raises
          /\ compile_pc' = "raised"
          /\ UNCHANGED <<page_count, assembled, page_i>>
    /\ UNCHANGED <<forum_topic, compiled>>

\* lines 223-225: one turn of for i in range(1, page_count+1)
GetLoopPage ==
    /\ CompileFrame
    /\ compile_pc = "loop"
    /\ page_i <= page_count
    /\ requests' = Append(requests, page_i)
    /\ \/ /\ assembled' =
                assembled \o extract_posts(TopicPage(forum_topic, page_i))
          /\ page_i' = page_i + 1
          /\ compile_pc' = "loop"
       \/ /\ compile_pc' = "raised"
          /\ UNCHANGED <<assembled, page_i>>
    /\ UNCHANGED <<forum_topic, page_count, compiled>>

\* lines 227-229: the loop is over; filter and build the Topic.  assembled
\* keeps the collection as it was before the filter.
ReturnTopic ==
    /\ CompileFrame
    /\ compile_pc = "loop"
    /\ page_i > page_count
    /\ compiled' = Some(Topic(TopicPage(forum_topic, 1).tid,
                              TopicPage(forum_topic, 1).title,
                              TopicPage(forum_topic, 1).author.username,
                              TopicPage(forum_topic, 1).author.uid,
                              postprocess_posts(assembled)))
    /\ compile_pc' = "done"
    /\ UNCHANGED <<forum_topic, requests, page_count, assembled, page_i>>

(***************************************************************************)
(* Mention finder: get_recent_mentions, extract_topics                     *)
(***************************************************************************)
\* a JSON number
PyInt(n) == [type |-> "int", value |-> n]
\* a member of class Categories(enum.Enum): a plain Enum member equals only
\* itself, never the int that is its value
Categories(n) == [type |-> "Categories", value |-> n]

JUNKYARD == 8
CATEGORY_BLACKLIST == <<Categories(JUNKYARD)>>

\* x in xs, for a list xs: equality with some element
py_in(x, xs) == \E k \in DOMAIN xs : xs[k] = x

\* the threads of the forum: slug and category id
ForumThreads ==
    { [slug |-> "noosphere-thread", cid |-> PyInt(7)],
      [slug |-> "case-study", cid |-> PyInt(6)],
      [slug |-> "junkyard-thread", cid |-> PyInt(JUNKYARD)] }

\* what GET search[&page=p] answers (no page: the first page)
SearchPage(pages, p) ==
    [posts |-> [k \in DOMAIN pages[p] |-> [topic |-> pages[p][k]]],
     pageCount |-> Len(pages),
     multiplePages |-> Len(pages) > 1]

\* [post['topic'] for post in mentions['posts']]
topics_of(m) == [k \in DOMAIN m.posts |-> m.posts[k].topic]

\* lines 158-159: the slugs of the topics not in the blacklist, as a set
\* (list(set(...)): the order is arbitrary)
unique_slugs(ts) ==
    {ts[k].slug : k \in {j \in DOMAIN ts : ~py_in(ts[j].cid, CATEGORY_BLACKLIST)}}

\* line 256: mentions = get_recent_mentions()
GetRecentMentions ==
    /\ MentionsFrame
    /\ mentions_pc = "search"
    /\ \/ /\ mentions' = Some(SearchPage(search_pages, 1))
          /\ mentions_pc' = "extract"
       \/ /\ mentions_pc' = "raised"
          /\ UNCHANGED mentions
    /\ UNCHANGED <<search_pages, topics, mentions_page, topic_slugs>>

\* lines 150-151: the paginated branch is entered
EnterPages ==
    /\ MentionsFrame
    /\ mentions_pc = "extract"
    /\ mentions.val.multiplePages
    /\ topics' = <<>>
    /\ mentions_page' = 2
    /\ mentions_pc' = "pages"
    /\ UNCHANGED <<search_pages, mentions, topic_slugs>>

\* lines 152-154: one turn of for page in range(2, pageCount+1)
GetMentionsPage ==
    /\ MentionsFrame
    /\ mentions_pc = "pages"
    /\ mentions_page <= mentions.val.pageCount
    /\ \/ /\ topics' = topics \o topics_of(SearchPage(search_pages, mentions_page))
          /\ mentions_page' = mentions_page + 1
          /\ mentions_pc' = "pages"
       \/ /\ mentions_pc' = "raised"
          /\ UNCHANGED <<topics, mentions_page>>
    /\ UNCHANGED <<search_pages, mentions, topic_slugs>>

\* lines 158-159 after the loop
ReturnPagedSlugs ==
    /\ MentionsFrame
    /\ mentions_pc = "pages"
    /\ mentions_page > mentions.val.pageCount
    /\ topic_slugs' = unique_slugs(topics)
    /\ mentions_pc' = "done"
    /\ UNCHANGED <<search_pages, mentions, topics, mentions_page>>

\* lines 155-159: a single page
ReturnSinglePageSlugs ==
    /\ MentionsFrame
    /\ mentions_pc = "extract"
    /\ ~mentions.val.multiplePages
    /\ topics' = topics_of(mentions.val)
    /\ topic_slugs' = unique_slugs(topics_of(mentions.val))
    /\ mentions_pc' = "done"
    /\ UNCHANGED <<search_pages, mentions, mentions_page>>

(***************************************************************************)
(* Dedup ledger and stream listener: twitter_to_forum.py                   *)
(***************************************************************************)
\* the leading characters of s before the first sep
RECURSIVE take_until(_, _)
take_until(s, sep) ==
    IF s = <<>> \/ Head(s) = sep THEN <<>>
    ELSE <<Head(s)>> \o take_until(Tail(s), sep)

\* s.split(sep) for a one-character sep
RECURSIVE split_on(_, _)
split_on(s, sep) ==
    LET first == take_until(s, sep)
    IN  IF Len(first) = Len(s) THEN <<first>>
        ELSE <<first>> \o split_on(SubSeq(s, Len(first) + 2, Len(s)), sep)

\* int(s) for a string of digits
RECURSIVE to_int(_)
to_int(s) ==
    IF s = <<>> THEN 0
    ELSE 10 * to_int(SubSeq(s, 1, Len(s) - 1))
            + ((CHOOSE d \in DOMAIN DIGITS : DIGITS[d] = s[Len(s)]) - 1)

NaN == [type |-> "NaN"]

\* the value the csv parser gives a field: an empty field is missing
parse_field(f) == IF f = <<>> THEN NaN ELSE PyInt(to_int(f))

\* pd.read_csv(file, names=names): the rows of the frame, each a function
\* from the column names to the cell.  Blank lines are skipped.  When a line
\* holds more fields than there are names, the leading fields become the
\* index and the names go to the trailing ones.
read_csv(content, names) ==
    LET NotBlank(l) == l # <<>>
        ls == SelectSeq(split_on(content, "\n"), NotBlank)
        rows == [k \in DOMAIN ls |-> split_on(ls[k], ",")]
        field_count == IF Len(rows) = 0 THEN Len(names)
                       ELSE Max({Len(rows[1]), Len(names)})
        leading_cols == field_count - Len(names)
    IN  [k \in DOMAIN rows |->
            [c \in {names[n] : n \in DOMAIN names} |->
                LET col == leading_cols
                               + (CHOOSE n \in DOMAIN names : names[n] = c)
                IN  IF col <= Len(rows[k]) THEN parse_field(rows[k][col]) ELSE NaN]]

\* MyStreamListener.__is_valid_comment: df.loc[df['id'] == id_].empty
is_valid_comment(content, id) ==
    LET df == read_csv(content, <<"id">>)
    IN  \A k \in DOMAIN df : df[k]["id"] # PyInt(id)

\* MyStreamListener.__save_tweet_id: f.write(f'{tweet_id},\n') in mode 'a'
save_tweet_id(content, tweet_id) == content \o str(tweet_id) \o <<",", "\n">>

\* MyStreamListener.__on_success: f.write(str(tweet['id'])+',\n') in mode 'a'
\* (__respond_on_success does nothing)
on_success(content, id) == content \o str(id) \o <<",", "\n">>

TweetIds == {1, 2, 3}

\* main, lines 156-158: the file is created empty when it is absent
Main ==
    /\ LedgerFrame
    /\ listener_pc = "main"
    /\ ids_file' = IF ids_file = None THEN Some(<<>>) ELSE ids_file
    /\ listener_pc' = "listening"
    /\ UNCHANGED <<forum_topics, saved, delivered>>

\* MyStreamListener.on_tweet for one delivered tweet.  The listener is one
\* process and the handler runs to its end before the next tweet.  The
\* calls of lines 129-130 are the collaborators of the handler (as written,
\* their argument lists do not match the definitions of unroll_thread and
\* post_forum, which is a raise on line 129); each either raises, which
\* ends the handler there, or returns: unroll_thread raises
\* ("unroll_raises"), post_forum raises before the topic is created
\* ("create_raises") or after it ("reply_raises"), or both return
\* ("posted").
on_tweet ==
    /\ LedgerFrame
    /\ listener_pc = "listening"
    /\ delivered < MaxTweets
    /\ delivered' = delivered + 1
    /\ \E id \in TweetIds,
          outcome \in {"unroll_raises", "create_raises", "reply_raises", "posted"} :
        IF ~is_valid_comment(ids_file.val, id)
        THEN UNCHANGED <<ids_file, forum_topics, saved>>
        ELSE /\ forum_topics' =
                    IF outcome \in {"reply_raises", "posted"}
                    THEN Append(forum_topics,
                                [id |-> id, complete |-> outcome = "posted"])
                    ELSE forum_topics
             /\ ids_file' = IF outcome = "posted"
                            THEN Some(on_success(save_tweet_id(ids_file.val, id), id))
                            ELSE ids_file
             /\ saved' = IF outcome = "posted" THEN Append(saved, id) ELSE saved
    /\ UNCHANGED listener_pc

(***************************************************************************)
(* Specifications: one per component.  Each starts the other components   *)
(* idle (position "idle", nothing constructed) and never moves them.       *)
(***************************************************************************)
SplitNext == Split

SplitInit ==
    /\ text \in SeqsUpTo(SplitAlphabet, MaxTextLen)
    /\ char_limit \in 1..MaxLimit
    /\ lines = Return(<<>>)
    /\ split_pc = "call"
    /\ post_args = None
    /\ post = None
    /\ topic_args = None
    /\ topic = None
    /\ posts = <<>>
    /\ filtered = <<>>
    /\ kept = <<>>
    /\ filter_pc = "idle"
    /\ forum_topic = <<>>
    /\ requests = <<>>
    /\ page_count = 0
    /\ assembled = <<>>
    /\ page_i = 0
    /\ compiled = None
    /\ compile_pc = "idle"
    /\ search_pages = <<>>
    /\ mentions = None
    /\ topics = <<>>
    /\ mentions_page = 0
    /\ topic_slugs = {}
    /\ mentions_pc = "idle"
    /\ ids_file = None
    /\ forum_topics = <<>>
    /\ saved = <<>>
    /\ delivered = 0
    /\ listener_pc = "idle"

SpecSplit == SplitInit /\ [][SplitNext]_vars

SanitizeNext == NewPost \/ NewTopic

SanitizeInit ==
    /\ text = <<>>
    /\ char_limit = 1
    /\ lines = Return(<<>>)
    /\ split_pc = "idle"
    /\ post_args = None
    /\ post = None
    /\ topic_args = None
    /\ topic = None
    /\ posts = <<>>
    /\ filtered = <<>>
    /\ kept = <<>>
    /\ filter_pc = "idle"
    /\ forum_topic = <<>>
    /\ requests = <<>>
    /\ page_count = 0
    /\ assembled = <<>>
    /\ page_i = 0
    /\ compiled = None
    /\ compile_pc = "idle"
    /\ search_pages = <<>>
    /\ mentions = None
    /\ topics = <<>>
    /\ mentions_page = 0
    /\ topic_slugs = {}
    /\ mentions_pc = "idle"
    /\ ids_file = None
    /\ forum_topics = <<>>
    /\ saved = <<>>
    /\ delivered = 0
    /\ listener_pc = "idle"

SpecSanitize == SanitizeInit /\ [][SanitizeNext]_vars

FilterNext == Filter

FilterInit ==
    /\ text = <<>>
    /\ char_limit = 1
    /\ lines = Return(<<>>)
    /\ split_pc = "idle"
    /\ post_args = None
    /\ post = None
    /\ topic_args = None
    /\ topic = None
    /\ posts \in SeqsUpTo(SamplePosts, MaxPosts)
    /\ filtered = <<>>
    /\ kept = <<>>
    /\ filter_pc = "call"
    /\ forum_topic = <<>>
    /\ requests = <<>>
    /\ page_count = 0
    /\ assembled = <<>>
    /\ page_i = 0
    /\ compiled = None
    /\ compile_pc = "idle"
    /\ search_pages = <<>>
    /\ mentions = None
    /\ topics = <<>>
    /\ mentions_page = 0
    /\ topic_slugs = {}
    /\ mentions_pc = "idle"
    /\ ids_file = None
    /\ forum_topics = <<>>
    /\ saved = <<>>
    /\ delivered = 0
    /\ listener_pc = "idle"

SpecFilter == FilterInit /\ [][FilterNext]_vars

CompileNext == GetFirstPage \/ GetLoopPage \/ ReturnTopic

CompileInit ==
    /\ text = <<>>
    /\ char_limit = 1
    /\ lines = Return(<<>>)
    /\ split_pc = "idle"
    /\ post_args = None
    /\ post = None
    /\ topic_args = None
    /\ topic = None
    /\ posts = <<>>
    /\ filtered = <<>>
    /\ kept = <<>>
    /\ filter_pc = "idle"
    /\ \E n \in 1..MaxPages :
       \E sizes \in [1..n -> 1..MaxPostsPerPage] :
       \E tagged \in {<<0, 0>>} \cup {<<n, sizes[n]>>} :
           forum_topic = [p \in 1..n |-> PagePosts(p, sizes[p], tagged)]
    /\ requests = <<>>
    /\ page_count = 0
    /\ assembled = <<>>
    /\ page_i = 0
    /\ compiled = None
    /\ compile_pc = "first"
    /\ search_pages = <<>>
    /\ mentions = None
    /\ topics = <<>>
    /\ mentions_page = 0
    /\ topic_slugs = {}
    /\ mentions_pc = "idle"
    /\ ids_file = None
    /\ forum_topics = <<>>
    /\ saved = <<>>
    /\ delivered = 0
    /\ listener_pc = "idle"

SpecCompile == CompileInit /\ [][CompileNext]_vars

MentionsNext ==
    \/ GetRecentMentions
    \/ EnterPages
    \/ GetMentionsPage
    \/ ReturnPagedSlugs
    \/ ReturnSinglePageSlugs

MentionsInit ==
    /\ text = <<>>
    /\ char_limit = 1
    /\ lines = Return(<<>>)
    /\ split_pc = "idle"
    /\ post_args = None
    /\ post = None
    /\ topic_args = None
    /\ topic = None
    /\ posts = <<>>
    /\ filtered = <<>>
    /\ kept = <<>>
    /\ filter_pc = "idle"
    /\ forum_topic = <<>>
    /\ requests = <<>>
    /\ page_count = 0
    /\ assembled = <<>>
    /\ page_i = 0
    /\ compiled = None
    /\ compile_pc = "idle"
    /\ \E n \in 1..MaxSearchPages :
           search_pages \in [1..n -> UNION {[1..k -> ForumThreads] :
                                              k \in 1..MaxEntriesPerPage}]
    /\ mentions = None
    /\ topics = <<>>
    /\ mentions_page = 0
    /\ topic_slugs = {}
    /\ mentions_pc = "search"
    /\ ids_file = None
    /\ forum_topics = <<>>
    /\ saved = <<>>
    /\ delivered = 0
    /\ listener_pc = "idle"

SpecMentions == MentionsInit /\ [][MentionsNext]_vars

LedgerNext == Main \/ on_tweet

LedgerInit ==
    /\ text = <<>>
    /\ char_limit = 1
    /\ lines = Return(<<>>)
    /\ split_pc = "idle"
    /\ post_args = None
    /\ post = None
    /\ topic_args = None
    /\ topic = None
    /\ posts = <<>>
    /\ filtered = <<>>
    /\ kept = <<>>
    /\ filter_pc = "idle"
    /\ forum_topic = <<>>
    /\ requests = <<>>
    /\ page_count = 0
    /\ assembled = <<>>
    /\ page_i = 0
    /\ compiled = None
    /\ compile_pc = "idle"
    /\ search_pages = <<>>
    /\ mentions = None
    /\ topics = <<>>
    /\ mentions_page = 0
    /\ topic_slugs = {}
    /\ mentions_pc = "idle"
    /\ ids_file \in {None, Some(<<>>)}
    /\ forum_topics = <<>>
    /\ saved = <<>>
    /\ delivered = 0
    /\ listener_pc = "main"

SpecLedger == LedgerInit /\ [][LedgerNext]_vars

(***************************************************************************)
(* Properties of postprocess_posts                                         *)
(***************************************************************************)
\* the post at 0-based position i holds the mention token
IsTagging(i) == Contains(posts[i + 1].content, MENTION)

HasTag == \E i \in 0..(Len(posts) - 1) : IsTagging(i)

\* the 0-based position of the last tagging post
LastTag == Max({i \in 0..(Len(posts) - 1) : IsTagging(i)})

\* the post at position i is not in the output
Dropped(i) == \A k \in DOMAIN kept : kept[k] # i

\* C1: with at least one tagging post in the input, every post of the
\* output stood before the last tagging post, and the output keeps the
\* input's order (it is the input's posts at strictly increasing positions).
C1_OnlyBeforeLastTagInOrder ==
    (filter_pc = "done" /\ HasTag) =>
        /\ Len(filtered) = Len(kept)
        /\ \A k \in DOMAIN kept :
               /\ kept[k] < LastTag
               /\ filtered[k] = posts[kept[k] + 1]
        /\ \A k, l \in DOMAIN kept : k < l => kept[k] < kept[l]

\* a post follows the last tagging post and two posts survive
C1_Witness ==
    /\ filter_pc = "done"
    /\ HasTag
    /\ LastTag < Len(posts) - 1
    /\ Len(filtered) >= 2

\* C10 as stated: with a tagging post in the input, a post is dropped only
\* when it is at or after the last tagging post, its author is banned or its
\* text is profanity-only.
C10_DroppedForThreeReasonsOnly ==
    (filter_pc = "done" /\ HasTag) =>
        \A i \in 0..(Len(posts) - 1) :
            Dropped(i) => \/ i >= LastTag
                          \/ posts[i + 1].is_banned
                          \/ profanity_only(posts[i + 1].text)

\* C10 amended: with a tagging post in the input, a post is dropped exactly
\* when it is at or after the last tagging post, is itself a tagging post,
\* has a banned author or has a profanity-only text.
C10_DroppedForFourReasonsOnly ==
    (filter_pc = "done" /\ HasTag) =>
        \A i \in 0..(Len(posts) - 1) :
            Dropped(i) <=> \/ i >= LastTag
                           \/ IsTagging(i)
                           \/ posts[i + 1].is_banned
                           \/ profanity_only(posts[i + 1].text)

\* an earlier tagging post, by an author who is not banned and with a text
\* that is not profanity-only, was dropped while another post survived
C10_Witness ==
    /\ filter_pc = "done"
    /\ HasTag
    /\ filtered # <<>>
    /\ \E i \in 0..(Len(posts) - 1) :
           /\ i < LastTag
           /\ IsTagging(i)
           /\ ~posts[i + 1].is_banned
           /\ ~profanity_only(posts[i + 1].text)
           /\ Dropped(i)

(***************************************************************************)
(* Properties of split_text_on_words                                       *)
(***************************************************************************)
\* the non-whitespace characters of s, in order
RECURSIVE NonWhitespace(_)
NonWhitespace(s) ==
    IF s = <<>> THEN <<>>
    ELSE IF Head(s) \in STRIP_CHARS THEN NonWhitespace(Tail(s))
         ELSE <<Head(s)>> \o NonWhitespace(Tail(s))

\* C2: re-joining the chunks split_text_on_words returns reproduces the text
\* up to whitespace: the non-whitespace characters of the chunks, in order,
\* are those of the text.
C2_RejoinReproducesText ==
    (split_pc = "done" /\ lines.exc = "None") =>
        NonWhitespace(Concat(lines.ret)) = NonWhitespace(text)

\* C3: split_text_on_words returns a list (it does not raise) and every
\* chunk of it, the trailing remainder included, is at most char_limit long.
C3_ChunksWithinLimit ==
    split_pc = "done" =>
        /\ lines.exc = "None"
        /\ \A k \in DOMAIN lines.ret : Len(lines.ret[k]) <= char_limit

(***************************************************************************)
(* Properties of Post and Topic construction                               *)
(***************************************************************************)
\* a display-name field built from the name raw of the account id: not
\* empty, not profanity-only, and str(id) when the censored name is
\* profanity-only
Anonymized(field, raw, id) ==
    /\ field # <<>>
    /\ ~profanity_only(field)
    /\ profanity_only(censor(raw)) => field = str(id)

\* C8: after construction no display-name field (Post.username,
\* Post.replies_to when present, Topic.author) is empty or still
\* profanity-only, and the username and the author are the identifier's
\* string form when the censored name is profanity-only.
C8_DisplayNamesAnonymized ==
    /\ post # None =>
           /\ Anonymized(post.val.username, post_args.val.username, post.val.uid)
           /\ post.val.replies_to # None =>
                  /\ post.val.replies_to.val # <<>>
                  /\ ~profanity_only(post.val.replies_to.val)
    /\ topic # None =>
           Anonymized(topic.val.author, topic_args.val.author,
                      topic.val.author_uid)

(***************************************************************************)
(* Properties of compile_posts_into_topic                                  *)
(***************************************************************************)
\* the posts of pages 1..n of the forum's topic, in page order
RECURSIVE PostsOfPages(_)
PostsOfPages(n) ==
    IF n = 0 THEN <<>>
    ELSE PostsOfPages(n - 1) \o extract_posts(TopicPage(forum_topic, n))

\* C4: when compile_posts_into_topic returns (every request succeeded), it
\* has issued exactly pageCount page requests and the collection it
\* assembled, before the filter, is the posts of pages 1..pageCount in page
\* order, each page once.
C4_OneRequestPerPage ==
    compile_pc = "done" =>
        /\ Len(requests) = Len(forum_topic)
        /\ assembled = PostsOfPages(Len(forum_topic))

(***************************************************************************)
(* Properties of extract_topics                                            *)
(***************************************************************************)
\* the thread's category id is the value of a member of the blacklist
Blacklisted(t) ==
    \E k \in DOMAIN CATEGORY_BLACKLIST : CATEGORY_BLACKLIST[k].value = t.cid.value

\* C5: extract_topics never returns the slug of a thread whose category is
\* in CATEGORY_BLACKLIST.
C5_NoBlacklistedThread ==
    mentions_pc = "done" =>
        \A t \in ForumThreads : Blacklisted(t) => t.slug \notin topic_slugs

\* C9: when the search result has several pages, every thread that is not
\* blacklisted and has a mention on any page, the first included, is in the
\* returned set (a set holds it once).
C9_AllPagesMerged ==
    (mentions_pc = "done" /\ mentions.val.multiplePages) =>
        \A p \in DOMAIN search_pages : \A k \in DOMAIN search_pages[p] :
            ~Blacklisted(search_pages[p][k]) =>
                search_pages[p][k].slug \in topic_slugs

(***************************************************************************)
(* Properties of the ledger and the listener                               *)
(***************************************************************************)
\* how many lines of IDS_FILE record id
Recordings(id) ==
    LET ls == split_on(ids_file.val, "\n")
    IN  Cardinality({k \in DOMAIN ls : ls[k] = str(id) \o <<",">>})

\* how many forum posts of the tweet id ran to their end
Postings(id) ==
    Cardinality({k \in DOMAIN forum_topics :
                     forum_topics[k].id = id /\ forum_topics[k].complete})

C7_RecordedIsProcessed ==
    listener_pc = "listening" =>
        \A k \in DOMAIN saved : ~is_valid_comment(ids_file.val, saved[k])

====
